---- MODULE Spec2Model ----
(***************************************************************************)
(* Model of buscaminas/minesweeper.py: the Sentence value type, the        *)
(* MinesweeperAI knowledge base (add_knowledge and its propagation and     *)
(* subset-resolution passes) and the two move selectors, played against a  *)
(* fixed Minesweeper board.                                                *)
(***************************************************************************)
EXTENDS Integers, Sequences, FiniteSets, TLC

\* Board dimensions (MinesweeperAI.height / MinesweeperAI.width).
Height == 2
Width == 4

\* Largest number of mines the board is built with (Minesweeper's "mines").
MaxMines == 4

\* Longest knowledge list the subset-resolution pass is followed to.
MaxSentences == 10

\* Calls made by a caller that does not keep to the precondition of
\* add_knowledge: how many, and on boards with how many mines.
MaxCalls == 2
MaxMinesAny == 1

VARIABLES
    board,        \* Minesweeper.mines: the cells that hold a mine
    moves_made,   \* MinesweeperAI.moves_made
    mines,        \* MinesweeperAI.mines
    safes,        \* MinesweeperAI.safes
    knowledge,    \* MinesweeperAI.knowledge: list of sentences
    pc,           \* "idle", "random_loop", "safe_returned", "random_returned",
                  \* "repeated" or "diverged"
    ret,          \* the value returned by the last move selector
    terminated,   \* did the last subset-resolution pass end within MaxSentences
    sentence,     \* a free-standing Sentence (Sentence-level operations)
    sentence0,    \* that Sentence before the last Sentence-level operation
    sop,          \* the last Sentence-level operation
    scell,        \* its cell argument
    last,         \* <<cell, count>> of the last add_knowledge call, where recorded
    calls         \* number of calls made on the AI, where counted

vars == <<board, moves_made, mines, safes, knowledge, pc, ret,
          terminated, sentence, sentence0, sop, scell, last, calls>>

callVars == <<last, calls>>

aiVars == <<board, moves_made, mines, safes, knowledge, pc, ret,
            terminated, callVars>>

sentVars == <<sentence, sentence0, sop, scell>>

\* Python's None, as returned by the move selectors.
None == <<>>

\* All cells (i, j) with 0 <= i < height and 0 <= j < width.
Cells == (0 .. Height - 1) \X (0 .. Width - 1)

----------------------------------------------------------------------------
(* Minesweeper (the board) *)

\* The (i, j) of the two nested range(cell - 1, cell + 2) loops that are on
\* the board and are not the cell itself.
Neighbours(cell) ==
    { c \in Cells :
        /\ c # cell
        /\ c[1] \in (cell[1] - 1) .. (cell[1] + 1)
        /\ c[2] \in (cell[2] - 1) .. (cell[2] + 1) }

is_mine(cell) == cell \in board

nearby_mines(cell) == Cardinality({ c \in Neighbours(cell) : is_mine(c) })

----------------------------------------------------------------------------
(* Sentence *)

Sentence(cells, count) == [cells |-> cells, count |-> count]

\* A returned set is <<set>>; a returned None is <<>>.
known_mines(s) ==
    IF s.count = Cardinality(s.cells) THEN <<s.cells>> ELSE None

known_safes(s) ==
    IF s.count = 0 THEN <<s.cells>> ELSE None

\* Truth value of "if safes:" / "if mines:": neither None nor the empty set.
Truthy(r) == r # None /\ r[1] # {}

\* Mutant: the membership test is dropped, so the count is always lowered.
Sentence_mark_mine_Always(s, cell) ==
    Sentence(s.cells \ {cell}, s.count - 1)

\* Mutant: the cell is removed but the count is not lowered.
Sentence_mark_mine_NoDecrement(s, cell) ==
    IF cell \in s.cells
    THEN Sentence(s.cells \ {cell}, s.count)
    ELSE s

Sentence_mark_mine(s, cell) ==
    IF cell \in s.cells
    THEN Sentence(s.cells \ {cell}, s.count - 1)
    ELSE s

\* Mutant: mark_safe lowers the count as mark_mine does.
Sentence_mark_safe_Decrement(s, cell) ==
    IF cell \in s.cells
    THEN Sentence(s.cells \ {cell}, s.count - 1)
    ELSE s

Sentence_mark_safe(s, cell) ==
    IF cell \in s.cells
    THEN Sentence(s.cells \ {cell}, s.count)
    ELSE s

----------------------------------------------------------------------------
(* MinesweeperAI: the state of one AI during a call is the record          *)
(* [moves_made, mines, safes, knowledge].                                  *)

\* Mutant: a cell marked as a mine is taken out of safes.
mark_mine_Unsafe(ai, cell) ==
    [ai EXCEPT !.mines = @ \cup {cell},
               !.safes = @ \ {cell},
               !.knowledge = [n \in DOMAIN @ |-> Sentence_mark_mine(@[n], cell)]]

\* MinesweeperAI.mark_mine: add the cell to mines, then Sentence.mark_mine
\* on every sentence of the knowledge base.
mark_mine(ai, cell) ==
    [ai EXCEPT !.mines = @ \cup {cell},
               !.knowledge = [n \in DOMAIN @ |-> Sentence_mark_mine(@[n], cell)]]

\* MinesweeperAI.mark_safe: add the cell to safes, then Sentence.mark_safe
\* on every sentence of the knowledge base.
mark_safe(ai, cell) ==
    [ai EXCEPT !.safes = @ \cup {cell},
               !.knowledge = [n \in DOMAIN @ |-> Sentence_mark_safe(@[n], cell)]]

\* "for cell in safes.copy(): self.mark_safe(cell)"
RECURSIVE MarkSafes(_, _)
MarkSafes(ai, cells) ==
    IF cells = {} THEN ai
    ELSE LET c == CHOOSE x \in cells : TRUE
         IN  MarkSafes(mark_safe(ai, c), cells \ {c})

\* "for cell in mines.copy(): self.mark_mine(cell)"
RECURSIVE MarkMines(_, _)
MarkMines(ai, cells) ==
    IF cells = {} THEN ai
    ELSE LET c == CHOOSE x \in cells : TRUE
         IN  MarkMines(mark_mine(ai, c), cells \ {c})

\* Mutant: known mines are left out of the sentence but still counted.
NewSentence_KeepCount(ai, cell, count) ==
    Sentence({ c \in Neighbours(cell) : c \notin ai.moves_made /\ c \notin ai.mines },
             count)

\* Step 3 of add_knowledge: the sentence built from the neighbourhood.
\* A neighbour is put in the sentence unless it is in moves_made or in
\* mines; each neighbour in mines lowers the count by one.
NewSentence(ai, cell, count) ==
    Sentence({ c \in Neighbours(cell) : c \notin ai.moves_made /\ c \notin ai.mines },
             count - Cardinality({ c \in Neighbours(cell) : c \in ai.mines }))

\* Mutant: the loop body marks the known safes and forgets the known mines.
PropagateOne_SafesOnly(ai, n) ==
    LET rs == known_safes(ai.knowledge[n])
    IN  IF Truthy(rs) THEN MarkSafes(ai, rs[1]) ELSE ai

\* Body of the step-4 loop for the sentence at position n.
PropagateOne(ai, n) ==
    LET rs  == known_safes(ai.knowledge[n])
        ai1 == IF Truthy(rs) THEN MarkSafes(ai, rs[1]) ELSE ai
        rm  == known_mines(ai1.knowledge[n])
    IN  IF Truthy(rm) THEN MarkMines(ai1, rm[1]) ELSE ai1

\* Mutant: only the sentence appended by this call is examined.
Propagate_NewOnly(ai, n) ==
    PropagateOne(ai, Len(ai.knowledge))

\* Step 4 of add_knowledge: one pass over the list, from position n on.
RECURSIVE Propagate(_, _)
Propagate(ai, n) ==
    IF n > Len(ai.knowledge) THEN ai
    ELSE Propagate(PropagateOne(ai, n), n + 1)

\* list.remove(x): drop the first element equal to x.
FirstIndex(K, x) == CHOOSE k \in 1 .. Len(K) :
                        /\ K[k] = x
                        /\ \A m \in 1 .. (k - 1) : K[m] # x

RemoveAt(K, k) == [n \in 1 .. (Len(K) - 1) |-> IF n < k THEN K[n] ELSE K[n + 1]]

\* Mutant: the derived sentence is never found in the list.
Contains_Never(K, x) == FALSE

\* "new_knowledge not in self.knowledge" (structural equality)
Contains(K, x) == \E n \in 1 .. Len(K) : K[n] = x

\* Mutant: the derived sentence keeps the count of the larger sentence.
new_knowledge_KeepCount(s1, s2) ==
    Sentence(s2.cells \ s1.cells, s2.count)

\* The sentence step 5 derives from sentence1, a subset of sentence2.
new_knowledge(s1, s2) ==
    Sentence(s2.cells \ s1.cells, s2.count - s1.count)

\* The inner loop of step 5 for the object sentence1, whose value is s1 and
\* which sits at position p1 of the list (0 once it has been removed from
\* it). j is the position the list iterator reads next; an iterator is not
\* adjusted when the list shrinks or grows. The loop is cut off, with done
\* FALSE, when the list would outgrow MaxSentences.
RECURSIVE InnerLoop(_, _, _, _)
InnerLoop(K, s1, p1, j) ==
    IF j > Len(K) THEN [knowledge |-> K, done |-> TRUE]
    ELSE LET s2 == K[j] IN
         IF j = p1
         THEN InnerLoop(K, s1, p1, j + 1)
         ELSE IF s1 = s2
         THEN LET k  == FirstIndex(K, s2)
                  p2 == IF p1 = 0 THEN 0
                        ELSE IF k < p1 THEN p1 - 1
                        ELSE IF k = p1 THEN 0
                        ELSE p1
              IN  InnerLoop(RemoveAt(K, k), s1, p2, j + 1)
         ELSE IF s1.cells \subseteq s2.cells
         THEN LET new == new_knowledge(s1, s2)
              IN  IF Contains(K, new) THEN InnerLoop(K, s1, p1, j + 1)
                  ELSE IF Len(K) >= MaxSentences
                  THEN [knowledge |-> K, done |-> FALSE]
                  ELSE InnerLoop(Append(K, new), s1, p1, j + 1)
         ELSE InnerLoop(K, s1, p1, j + 1)

\* Step 5 of add_knowledge: the outer loop, reading position i next.
RECURSIVE SubsetPass(_, _)
SubsetPass(K, i) ==
    IF i > Len(K) THEN [knowledge |-> K, done |-> TRUE]
    ELSE LET r == InnerLoop(K, K[i], i, 1)
         IN  IF r.done THEN SubsetPass(r.knowledge, i + 1) ELSE r

\* Mutant: the propagation pass runs before the new sentence is appended.
Ingest_PropagateFirst(ai, cell, count) ==
    LET ai1 == [ai EXCEPT !.moves_made = @ \cup {cell}]
        ai2 == Propagate(mark_safe(ai1, cell), 1)
    IN  [ai2 EXCEPT !.knowledge = Append(@, NewSentence(ai2, cell, count))]

\* Mutant: a new sentence without cells is not appended.
AppendNew_SkipEmpty(ai, cell, count) ==
    LET ai1 == [ai EXCEPT !.moves_made = @ \cup {cell}]
        ai2 == mark_safe(ai1, cell)
        new == NewSentence(ai2, cell, count)
    IN  IF new.cells = {} THEN ai2
        ELSE [ai2 EXCEPT !.knowledge = Append(@, new)]

\* Steps 1-3 of add_knowledge: the move is recorded, the cell marked safe
\* and the new sentence appended.
AppendNew(ai, cell, count) ==
    LET ai1 == [ai EXCEPT !.moves_made = @ \cup {cell}]
        ai2 == mark_safe(ai1, cell)
    IN  [ai2 EXCEPT !.knowledge = Append(@, NewSentence(ai2, cell, count))]

\* Steps 1-4 of add_knowledge.
Ingest(ai, cell, count) ==
    Propagate(AppendNew(ai, cell, count), 1)

\* Mutant: the propagation pass is run once more after the subset pass.
add_knowledge_Repropagate(ai, cell, count) ==
    LET ai4 == Ingest(ai, cell, count)
        r   == SubsetPass(ai4.knowledge, 1)
    IN  [ai |-> Propagate([ai4 EXCEPT !.knowledge = r.knowledge], 1),
         done |-> r.done]

\* add_knowledge(cell, count): the AI after the call, with the outcome of
\* the subset-resolution pass.
add_knowledge(ai, cell, count) ==
    LET ai4 == Ingest(ai, cell, count)
        r   == SubsetPass(ai4.knowledge, 1)
    IN  [ai |-> [ai4 EXCEPT !.knowledge = r.knowledge], done |-> r.done]

\* Mutant: moves already made are not taken out of the candidates.
make_safe_move_NoSubtract(ai) ==
    IF ai.safes # {} THEN ai.safes ELSE {None}

\* make_safe_move: the values it can return.
make_safe_move(ai) ==
    LET available_steps == ai.safes \ ai.moves_made
    IN  IF available_steps # {} THEN available_steps ELSE {None}

\* Mutant: the opening test counts the moves made only.
RandomMoveNone_MovesOnly(ai) ==
    Cardinality(ai.moves_made) = Height * Width

\* The test that opens make_random_move.
RandomMoveNone(ai) ==
    Cardinality(ai.mines) + Cardinality(ai.moves_made) = Height * Width

\* Mutant: a sample is accepted although it is a known mine.
RandomMoveAccepts_Mines(ai, cell) ==
    cell \notin ai.moves_made

\* The test that ends the loop of make_random_move for the sample (i, j).
RandomMoveAccepts(ai, cell) ==
    cell \notin ai.moves_made /\ cell \notin ai.mines

----------------------------------------------------------------------------
(* The state machine *)

AI == [moves_made |-> moves_made, mines |-> mines, safes |-> safes,
       knowledge |-> knowledge]

NoSentence == Sentence({}, 0)

InitAI ==
    /\ moves_made = {}
    /\ mines = {}
    /\ safes = {}
    /\ knowledge = <<>>
    /\ pc = "idle"
    /\ ret = None
    /\ terminated = TRUE
    /\ last = None
    /\ calls = 0

\* A board with at most MaxMines mines, and a freshly constructed AI.
Init ==
    /\ board \in { b \in SUBSET Cells : Cardinality(b) <= MaxMines }
    /\ InitAI
    /\ sentence = NoSentence
    /\ sentence0 = NoSentence
    /\ sop = "none"
    /\ scell = None

\* The caller probes a cell that is not a mine and was not probed before,
\* and hands the AI the board's count for it.
AddKnowledge(cell) ==
    /\ pc = "idle"
    /\ ~is_mine(cell)
    /\ cell \notin moves_made
    /\ LET r == add_knowledge(AI, cell, nearby_mines(cell)) IN
        /\ moves_made' = r.ai.moves_made
        /\ mines' = r.ai.mines
        /\ safes' = r.ai.safes
        /\ knowledge' = r.ai.knowledge
        /\ terminated' = r.done
    /\ UNCHANGED <<board, pc, ret, sentVars, callVars>>

\* Mutant: the returned move is recorded as made.
MakeSafeMove_RecordsMove ==
    /\ pc = "idle"
    /\ ret' \in make_safe_move(AI)
    /\ pc' = "safe_returned"
    /\ moves_made' = IF ret' = None THEN moves_made ELSE moves_made \cup {ret'}
    /\ UNCHANGED <<board, mines, safes, knowledge, terminated, sentVars, callVars>>

MakeSafeMove ==
    /\ pc = "idle"
    /\ ret' \in make_safe_move(AI)
    /\ pc' = "safe_returned"
    /\ UNCHANGED <<board, moves_made, mines, safes, knowledge, terminated, sentVars, callVars>>

MakeRandomMoveNone ==
    /\ pc = "idle"
    /\ RandomMoveNone(AI)
    /\ ret' = None
    /\ pc' = "random_returned"
    /\ UNCHANGED <<board, moves_made, mines, safes, knowledge, terminated, sentVars, callVars>>

MakeRandomMoveLoop ==
    /\ pc = "idle"
    /\ ~RandomMoveNone(AI)
    /\ pc' = "random_loop"
    /\ UNCHANGED <<board, moves_made, mines, safes, knowledge, ret, terminated, sentVars, callVars>>

\* One turn of "while True": draw (i, j); return it if it is acceptable.
RandomSampleHit(cell) ==
    /\ pc = "random_loop"
    /\ RandomMoveAccepts(AI, cell)
    /\ ret' = cell
    /\ pc' = "random_returned"
    /\ UNCHANGED <<board, moves_made, mines, safes, knowledge, terminated, sentVars, callVars>>

RandomSampleMiss(cell) ==
    /\ pc = "random_loop"
    /\ ~RandomMoveAccepts(AI, cell)
    /\ UNCHANGED vars

\* The caller takes the returned move.
Return ==
    /\ pc \in {"safe_returned", "random_returned"}
    /\ pc' = "idle"
    /\ ret' = None
    /\ UNCHANGED <<board, moves_made, mines, safes, knowledge, terminated, sentVars, callVars>>

Next ==
    \/ \E cell \in Cells : AddKnowledge(cell)
    \/ MakeSafeMove
    \/ MakeRandomMoveNone
    \/ MakeRandomMoveLoop
    \/ \E cell \in Cells : RandomSampleHit(cell)
    \/ \E cell \in Cells : RandomSampleMiss(cell)
    \/ Return

Spec == Init /\ [][Next]_vars

\* random.randrange keeps drawing: a cell the loop accepts is drawn in the end.
FairSpec == Spec /\ WF_vars(\E cell \in Cells : RandomSampleHit(cell))

----------------------------------------------------------------------------
(* Sentence on its own: any sentence over the board's cells, reduced by    *)
(* Sentence.mark_mine and Sentence.mark_safe.                              *)

InitSentence ==
    /\ board = {}
    /\ InitAI
    /\ sentence \in { Sentence(cs, n) : <<cs, n>> \in
                        { x \in (SUBSET Cells) \X (0 .. Height * Width) :
                            x[2] <= Cardinality(x[1]) } }
    /\ sentence0 = sentence
    /\ sop = "none"
    /\ scell = None

SentenceMarkMine(cell) ==
    /\ sentence0' = sentence
    /\ sentence' = Sentence_mark_mine(sentence, cell)
    /\ sop' = "mark_mine"
    /\ scell' = cell
    /\ UNCHANGED aiVars

SentenceMarkSafe(cell) ==
    /\ sentence0' = sentence
    /\ sentence' = Sentence_mark_safe(sentence, cell)
    /\ sop' = "mark_safe"
    /\ scell' = cell
    /\ UNCHANGED aiVars

NextSentence ==
    \/ \E cell \in Cells : SentenceMarkMine(cell)
    \/ \E cell \in Cells : SentenceMarkSafe(cell)

SpecSentence == InitSentence /\ [][NextSentence]_vars

----------------------------------------------------------------------------
(* A repeated call: the caller hands add_knowledge the cell and count of   *)
(* the call it has just made once more.                                    *)

\* As AddKnowledge, and the caller keeps the arguments of the call.
AddKnowledgeFirst(cell) ==
    /\ pc = "idle"
    /\ ~is_mine(cell)
    /\ cell \notin moves_made
    /\ LET r == add_knowledge(AI, cell, nearby_mines(cell)) IN
        /\ moves_made' = r.ai.moves_made
        /\ mines' = r.ai.mines
        /\ safes' = r.ai.safes
        /\ knowledge' = r.ai.knowledge
        /\ terminated' = r.done
    /\ last' = <<cell, nearby_mines(cell)>>
    /\ UNCHANGED <<board, pc, ret, sentVars, calls>>

\* add_knowledge is called again with the arguments of the last call.
AddKnowledgeAgain ==
    /\ pc = "idle"
    /\ last # None
    /\ LET r == add_knowledge(AI, last[1], last[2]) IN
        /\ moves_made' = r.ai.moves_made
        /\ mines' = r.ai.mines
        /\ safes' = r.ai.safes
        /\ knowledge' = r.ai.knowledge
        /\ terminated' = r.done
    /\ pc' = "repeated"
    /\ UNCHANGED <<board, ret, sentVars, callVars>>

NextRepeat ==
    \/ \E cell \in Cells : AddKnowledgeFirst(cell)
    \/ AddKnowledgeAgain

SpecRepeat == Init /\ [][NextRepeat]_vars

----------------------------------------------------------------------------
(* Any caller: add_knowledge for any cell, with its count or a wrong one,   *)
(* and mark_mine and mark_safe called from outside, on a fresh AI.          *)

\* What the count a caller hands over is above the board's: nothing or one.
Excess == {0, 1}

InitAny ==
    /\ board \in { b \in SUBSET Cells : Cardinality(b) <= MaxMinesAny }
    /\ InitAI
    /\ sentence = NoSentence
    /\ sentence0 = NoSentence
    /\ sop = "none"
    /\ scell = None

\* add_knowledge(cell, count) with arguments of the caller's choosing. A call
\* whose subset pass does not end never returns.
AddKnowledgeAny(cell, count) ==
    /\ pc = "idle"
    /\ calls < MaxCalls
    /\ LET r == add_knowledge(AI, cell, count) IN
        /\ moves_made' = r.ai.moves_made
        /\ mines' = r.ai.mines
        /\ safes' = r.ai.safes
        /\ knowledge' = r.ai.knowledge
        /\ terminated' = r.done
        /\ pc' = IF r.done THEN "idle" ELSE "diverged"
    /\ last' = <<cell, count>>
    /\ calls' = calls + 1
    /\ UNCHANGED <<board, ret, sentVars>>

\* MinesweeperAI.mark_mine(cell) called by the caller.
MarkMine(cell) ==
    /\ pc = "idle"
    /\ calls < MaxCalls
    /\ LET ai == mark_mine(AI, cell) IN
        /\ moves_made' = ai.moves_made
        /\ mines' = ai.mines
        /\ safes' = ai.safes
        /\ knowledge' = ai.knowledge
    /\ last' = <<cell>>
    /\ calls' = calls + 1
    /\ UNCHANGED <<board, pc, ret, terminated, sentVars>>

\* MinesweeperAI.mark_safe(cell) called by the caller.
MarkSafe(cell) ==
    /\ pc = "idle"
    /\ calls < MaxCalls
    /\ LET ai == mark_safe(AI, cell) IN
        /\ moves_made' = ai.moves_made
        /\ mines' = ai.mines
        /\ safes' = ai.safes
        /\ knowledge' = ai.knowledge
    /\ last' = <<cell>>
    /\ calls' = calls + 1
    /\ UNCHANGED <<board, pc, ret, terminated, sentVars>>

NextAny ==
    \E cell \in Cells, over \in Excess :
        AddKnowledgeAny(cell, nearby_mines(cell) + over)

SpecAny == InitAny /\ [][NextAny]_vars

\* The same caller, who also calls mark_mine and mark_safe, on a board
\* without mines.
InitCalls ==
    /\ board = {}
    /\ InitAI
    /\ sentence = NoSentence
    /\ sentence0 = NoSentence
    /\ sop = "none"
    /\ scell = None

NextCalls ==
    \/ \E cell \in Cells, over \in Excess :
        AddKnowledgeAny(cell, nearby_mines(cell) + over)
    \/ \E cell \in Cells : MarkMine(cell)
    \/ \E cell \in Cells : MarkSafe(cell)

SpecCalls == InitCalls /\ [][NextCalls]_vars

----------------------------------------------------------------------------
(* Properties *)

\* The cell of the add_knowledge call that a step makes.
CallCell == CHOOSE c \in moves_made' \ moves_made : TRUE

\* The sentence that call builds in step 3, from the AI before the call.
CallSentence ==
    NewSentence([AI EXCEPT !.moves_made = @ \cup {CallCell}], CallCell,
                nearby_mines(CallCell))

\* C1: confirmed facts are sound: every cell in mines is a mine of the
\* board, no cell in safes is one, and make_safe_move never returns a mine.
C1_Soundness ==
    /\ mines \subseteq board
    /\ safes \cap board = {}
    /\ (pc = "safe_returned" /\ ret # None) => ret \notin board

C1_Witness ==
    /\ mines # {}
    /\ safes \ moves_made # {}
    /\ pc = "safe_returned"
    /\ ret # None

\* C2: every sentence of the knowledge base, ingested or derived, has
\* 0 <= count <= |cells|.
C2_CountInRange ==
    \A n \in 1 .. Len(knowledge) :
        /\ 0 <= knowledge[n].count
        /\ knowledge[n].count <= Cardinality(knowledge[n].cells)

\* A derived sentence (one that is no neighbourhood minus known cells of a
\* probed cell alone) with a count strictly between the two ends.
C2_Witness ==
    /\ Len(knowledge) > Cardinality(moves_made)
    /\ \E n \in 1 .. Len(knowledge) :
        /\ 0 < knowledge[n].count
        /\ knowledge[n].count < Cardinality(knowledge[n].cells)
    /\ mines # {}

\* C3: the confirmed-mine and confirmed-safe sets are disjoint.
C3_Disjoint == mines \cap safes = {}

C3_Witness ==
    /\ mines # {}
    /\ safes \ moves_made # {}
    /\ Cardinality(moves_made) >= 2

\* C4 (as claimed): on return of add_knowledge no sentence is left with
\* count 0 or count = |cells| and cells that are not confirmed.
C4_FixpointOnReturn ==
    \A n \in 1 .. Len(knowledge) :
        /\ knowledge[n].count = 0 => knowledge[n].cells \subseteq safes
        /\ knowledge[n].count = Cardinality(knowledge[n].cells)
              => knowledge[n].cells \subseteq mines

\* C4 (amended): the cells of every sentence that has count 0, or count =
\* |cells|, when add_knowledge is called are confirmed safe, or mines, when
\* that call returns.
C4_FixpointByNextCall ==
    [][moves_made' # moves_made =>
        \A n \in 1 .. Len(knowledge) :
            /\ knowledge[n].count = 0 => knowledge[n].cells \subseteq safes'
            /\ knowledge[n].count = Cardinality(knowledge[n].cells)
                  => knowledge[n].cells \subseteq mines']_vars

\* A call has returned and left a sentence with unconfirmed cells that the
\* simple deductions settle; one more cell can still be probed.
C4_Witness ==
    /\ ~C4_FixpointOnReturn
    /\ pc = "idle"
    /\ Cells \ (moves_made \cup board) # {}

\* C5: no sentence of the knowledge base contains a cell that is in mines
\* or in safes.
C5_Reduced ==
    \A n \in 1 .. Len(knowledge) :
        knowledge[n].cells \cap (mines \cup safes) = {}

\* The shape of C6: A = (3 cells, 1) and B = (A's cells and one more, 2).
C6_Pair(A, B) ==
    /\ Cardinality(A.cells) = 3
    /\ A.count = 1
    /\ A.cells \subseteq B.cells
    /\ Cardinality(B.cells) = 4
    /\ B.count = 2

C7_DirectDeduction ==
    [][moves_made' # moves_made =>
        /\ CallSentence.count = Cardinality(CallSentence.cells)
              => CallSentence.cells \subseteq mines'
        /\ CallSentence.count = 0 => CallSentence.cells \subseteq safes']_vars

\* Two calls have returned: one on a corner all of whose neighbours are
\* mines, one on a corner none of whose neighbours is a mine.
C7_Witness ==
    \E c, d \in Cells :
        /\ moves_made = {c, d}
        /\ c # d
        /\ Neighbours(c) \subseteq board
        /\ Neighbours(c) \subseteq mines
        /\ Neighbours(d) \cap board = {}
        /\ Neighbours(d) \subseteq safes

\* C8: make_random_move returns None exactly when moves_made and mines cover
\* the board, and otherwise a cell of the board in neither; its loop ends.
C8_RandomMove ==
    /\ [](pc = "random_returned" =>
            /\ ret = None <=> Cells \subseteq (moves_made \cup mines)
            /\ ret # None => /\ ret \in Cells
                             /\ ret \notin moves_made
                             /\ ret \notin mines)
    /\ [](pc = "random_loop" => <>(pc = "random_returned"))

C8_Witness ==
    /\ pc = "random_returned"
    /\ ret = None
    /\ mines # {}
    /\ moves_made # {}

\* C9: make_safe_move returns None exactly when safes minus moves_made is
\* empty, and otherwise a cell of safes that is not in moves_made.
C9_SafeMove ==
    pc = "safe_returned" =>
        /\ ret = None <=> safes \ moves_made = {}
        /\ ret # None => (ret \in safes /\ ret \notin moves_made)

C9_Witness ==
    /\ pc = "safe_returned"
    /\ ret # None
    /\ moves_made # {}
    /\ mines # {}

\* C10: on a sentence that contains the cell, mark_mine removes exactly that
\* cell and lowers count by 1, and mark_safe removes exactly that cell and
\* keeps count; on a sentence that does not contain it both change nothing.
C10_SentenceReduction ==
    /\ (sop = "mark_mine" /\ scell \in sentence0.cells) =>
          /\ sentence.cells = sentence0.cells \ {scell}
          /\ sentence.count = sentence0.count - 1
    /\ (sop = "mark_safe" /\ scell \in sentence0.cells) =>
          /\ sentence.cells = sentence0.cells \ {scell}
          /\ sentence.count = sentence0.count
    /\ (sop # "none" /\ scell \notin sentence0.cells) =>
          /\ sentence.cells = sentence0.cells
          /\ sentence.count = sentence0.count

C10_Witness ==
    /\ sop = "mark_mine"
    /\ scell \in sentence0.cells
    /\ Cardinality(sentence0.cells) >= 2
    /\ sentence0.count >= 1

\* The sentences of a knowledge list, compared structurally.
SentenceSet(K) == { K[n] : n \in 1 .. Len(K) }

\* C11: add_knowledge is idempotent for a repeated cell with the same count:
\* a second call made immediately after the first with the same arguments
\* leaves moves_made, mines, safes and the set of sentences as they were.
C11_Idempotent ==
    [][pc' = "repeated" =>
         /\ moves_made' = moves_made
         /\ mines' = mines
         /\ safes' = safes
         /\ SentenceSet(knowledge') = SentenceSet(knowledge)]_vars

\* C12: make_safe_move changes nothing: across the call mines, safes,
\* moves_made and knowledge are as they were.
C12_SafeMoveFrame ==
    [][pc' = "safe_returned" =>
         UNCHANGED <<mines, safes, moves_made, knowledge>>]_vars

\* make_safe_move has returned a cell to an AI that holds sentences.
C12_Witness ==
    /\ pc = "safe_returned"
    /\ ret # None
    /\ knowledge # <<>>
    /\ mines # {}

\* The cells at most one row and one column away from cell, cell excepted.
C13_Around(cell) ==
    { c \in Cells : /\ c # cell
                    /\ c[1] - cell[1] \in -1 .. 1
                    /\ c[2] - cell[2] \in -1 .. 1 }

\* C13: the sentence step 3 of add_knowledge(cell, count) appends has as
\* cells the in-bounds neighbours of cell that are neither in moves_made nor
\* in mines, and as count the given count less the number of neighbours in
\* mines; it is appended also when it has no cell.
C13_NewSentence ==
    [][moves_made' # moves_made =>
         LET cell  == CallCell
             count == nearby_mines(cell)
             ai3   == AppendNew(AI, cell, count)
             n     == Len(knowledge)
         IN  /\ Len(ai3.knowledge) = n + 1
             /\ ai3.knowledge[n + 1].cells =
                    { c \in C13_Around(cell) : c \notin moves_made' /\ c \notin mines }
             /\ ai3.knowledge[n + 1].count =
                    count - Cardinality(C13_Around(cell) \cap mines)
             /\ ai3.mines = mines
             /\ ai3.moves_made = moves_made']_vars

\* A call was made for a cell with a mine next to it, all of whose
\* neighbours were probed or known mines: its new sentence had no cell.
C13_Witness ==
    /\ pc = "idle"
    /\ \E cell \in moves_made :
          /\ Neighbours(cell) \subseteq moves_made \cup mines
          /\ Neighbours(cell) \cap mines # {}
    /\ \E n \in 1 .. Len(knowledge) : knowledge[n].cells = {}

\* C14: the subset pass (step 5) changes neither mines, safes nor
\* moves_made, and rewrites no sentence: every sentence held after the
\* propagation pass is still held on return, and a sentence that is new on
\* return is the difference of two sentences held. So mines and safes on
\* return are as the propagation pass left them, and what step 5 derives is
\* confirmed by a later call only.
C14_SinglePass ==
    [][moves_made' # moves_made =>
         LET ai4 == Ingest(AI, CallCell, nearby_mines(CallCell))
             old == SentenceSet(ai4.knowledge)
             new == SentenceSet(knowledge')
         IN  /\ mines' = ai4.mines
             /\ safes' = ai4.safes
             /\ moves_made' = ai4.moves_made
             /\ old \subseteq new
             /\ \A s \in new \ old :
                    \E A, B \in new :
                        /\ A.cells \subseteq B.cells
                        /\ s = Sentence(B.cells \ A.cells, B.count - A.count)]_vars

\* A call has returned with a sentence of count 0, and one whose cells are
\* all mines, whose cells it has not confirmed.
C14_Witness ==
    /\ pc = "idle"
    /\ \E n \in 1 .. Len(knowledge) :
          /\ knowledge[n].count = 0
          /\ knowledge[n].cells \ safes # {}
    /\ \E n \in 1 .. Len(knowledge) :
          /\ knowledge[n].count = Cardinality(knowledge[n].cells)
          /\ knowledge[n].cells \ mines # {}

\* C15: when add_knowledge returns, no two sentences of the knowledge base
\* are structurally equal.
C15_NoDuplicates ==
    \A a, b \in 1 .. Len(knowledge) :
        a # b => knowledge[a] # knowledge[b]

\* C16: when add_knowledge returns, for every two sentences A and B of the
\* knowledge base that differ structurally, with A's cells among B's, the
\* sentence (B.cells - A.cells, B.count - A.count) is in the knowledge base.
C16_SubsetClosure ==
    \A a, b \in 1 .. Len(knowledge) :
        (/\ a # b
         /\ knowledge[a] # knowledge[b]
         /\ knowledge[a].cells \subseteq knowledge[b].cells)
        => Contains(knowledge,
                    Sentence(knowledge[b].cells \ knowledge[a].cells,
                             knowledge[b].count - knowledge[a].count))

\* C17: every sentence of the knowledge base is true of the board: the
\* number of the board's mines among its cells is its count.
C17_SentencesTrue ==
    \A n \in 1 .. Len(knowledge) :
        Cardinality(knowledge[n].cells \cap board) = knowledge[n].count

\* Calls have returned with a confirmed mine and with sentences that a
\* mark_mine, a mark_safe and the subset pass have worked on: one with
\* cells and count 0, one with a mine and a safe cell among its cells.
C17_Witness ==
    /\ pc = "idle"
    /\ mines # {}
    /\ \E n \in 1 .. Len(knowledge) :
          knowledge[n].count = 0 /\ knowledge[n].cells # {}
    /\ \E n \in 1 .. Len(knowledge) :
          /\ knowledge[n].count > 0
          /\ Cardinality(knowledge[n].cells) > knowledge[n].count
    /\ Len(knowledge) >= 4

\* C18 as stated: every add_knowledge call terminates.
C18_Terminates == terminated

\* C18, amended: add_knowledge(cell, count) terminates when cell is not a
\* mine, count is the board's count for it, every sentence held is true of
\* the board, every cell in mines is a mine and no cell in safes is one.
C18_TerminatesOnTrueInput ==
    [][(/\ calls' = calls + 1
        /\ Len(last') = 2
        /\ ~is_mine(last'[1])
        /\ last'[2] = nearby_mines(last'[1])
        /\ C17_SentencesTrue
        /\ mines \subseteq board
        /\ safes \cap board = {})
       => terminated' /\ pc' = "idle"]_vars

\* Two calls with true arguments have returned, the second after a subset
\* pass over three sentences or more.
C18_Witness ==
    /\ calls = MaxCalls
    /\ Cardinality(moves_made) >= 2
    /\ Len(last) = 2
    /\ last[2] = nearby_mines(last[1])
    /\ moves_made \cap board = {}
    /\ C17_SentencesTrue
    /\ Len(knowledge) >= 3
    /\ terminated

\* C19: across any sequence of add_knowledge, mark_mine and mark_safe
\* calls mines, safes and moves_made only grow, and after every
\* add_knowledge call every cell of moves_made is in safes.
C19_Monotone ==
    [][/\ mines \subseteq mines'
       /\ safes \subseteq safes'
       /\ moves_made \subseteq moves_made'
       /\ (calls' = calls + 1 /\ Len(last') = 2)
             => moves_made' \subseteq safes']_vars

\* An add_knowledge call has returned, after another call, to an AI that
\* holds a mine and has a cell marked both as a mine and as safe.
C19_Witness ==
    /\ calls = MaxCalls
    /\ Len(last) = 2
    /\ pc = "idle"
    /\ moves_made # {}
    /\ mines \cap safes # {}

====
